---- MODULE Spec2Model ----
(***************************************************************************)
(* Registration / seat-allocation / promo-pricing flow of                  *)
(* src/registration.py (Flask blueprint "register").                       *)
(*                                                                         *)
(* Form values are modelled as sequences of one-character strings so that  *)
(* str.strip() and str.lower() are computed, not assumed.  A missing form  *)
(* field (Python None) is the value None.                                  *)
(***************************************************************************)
EXTENDS Integers, Sequences, FiniteSets, TLC

VARIABLES
    rows,       \* the registrations table, in insertion (id) order
    req,        \* req[r]: the submit request handled by worker r
    session,    \* the browser session cookie: signed_in, user_email
    seatCap,    \* BOOTCAMP_SEAT_CAP as read from the environment at import
    bootPrice,  \* BOOTCAMP_PRICE_AMOUNT as resolved at import
    preview,    \* the last answer of /price-preview, with its inputs
    priceCall,  \* one call of _compute_price: its inputs, its time, its result
    lastResp,   \* the last answer of page, signin or logout, with its inputs
    subscriptions,  \* the subscriptions table, in insertion (id) order
    subResp,    \* the create_subscription request: its inputs, its position,
                \* its answer
    service,    \* the Windows service of the tunnel, as sc reports it
    script      \* one run of the tunnel restart script

\* the variables of the registration blueprint
registration ==
    <<rows, req, session, seatCap, bootPrice, preview, priceCall, lastResp>>

\* the variables of the other programs of the repository
elsewhere == <<subscriptions, subResp, service, script>>

\* the variables outside the submit handler and the pricing
aux == <<lastResp, elsewhere>>

vars == <<rows, req, session, seatCap, bootPrice, preview, priceCall, aux>>

----------------------------------------------------------------------------
(* Bounds of the model *)

MaxInFlight == 2     \* workers handling submit requests at the same time
MaxSeatCap == 1      \* the environment sets BOOTCAMP_SEAT_CAP in 0..MaxSeatCap
MaxRows == 2         \* submissions are accepted while the table has fewer rows
MaxFilled == 1       \* billing forms fill in, or leave blank, up to MaxFilled
                     \* of the invoice fields
MaxSkew == 1         \* _compute_price is called up to MaxSkew before or after
                     \* the early-bird deadline

Workers == 1..MaxInFlight

----------------------------------------------------------------------------
(* Strings *)

None == <<"None">>

Whitespace == {" "}

UpperChars == <<"A","B","C","D","E","F","G","H","I","J","K","L","M",
                "N","O","P","Q","R","S","T","U","V","W","X","Y","Z">>
LowerChars == <<"a","b","c","d","e","f","g","h","i","j","k","l","m",
                "n","o","p","q","r","s","t","u","v","w","x","y","z">>

LowerChar(c) ==
    IF \E i \in 1..26 : UpperChars[i] = c
    THEN LowerChars[CHOOSE i \in 1..26 : UpperChars[i] = c]
    ELSE c

\* str.lower()
Lower(s) == [i \in 1..Len(s) |-> LowerChar(s[i])]

\* str.strip(): drop leading and trailing whitespace
Strip(s) ==
    LET keep == {i \in 1..Len(s) : s[i] \notin Whitespace}
    IN  IF keep = {} THEN <<>>
        ELSE LET lo == CHOOSE i \in keep : \A j \in keep : i <= j
                 hi == CHOOSE i \in keep : \A j \in keep : j <= i
             IN  SubSeq(s, lo, hi)

\* Python truthiness of an optional string
Truthy(x) == x # None /\ x # <<>>

\* _s(x): None stays None; otherwise strip, and an empty result becomes None
StripToNone(x) ==
    IF x = None THEN None
    ELSE IF Strip(x) = <<>> THEN None ELSE Strip(x)

TrueWords == { <<"1">>, <<"t","r","u","e">>, <<"y","e","s">>, <<"y">>, <<"o","n">> }

\* _bool(v, default)
ToBool(v, default) ==
    IF v = None THEN default ELSE Lower(Strip(v)) \in TrueWords

Digits == <<"0","1","2","3","4","5","6","7","8","9">>

IsDigit(c) == \E i \in 1..10 : Digits[i] = c

DigitVal(c) == (CHOOSE i \in 1..10 : Digits[i] = c) - 1

RECURSIVE DecimalValue(_)
DecimalValue(s) ==
    IF s = <<>> THEN 0
    ELSE 10 * DecimalValue(SubSeq(s, 1, Len(s) - 1)) + DigitVal(s[Len(s)])

\* int(age_raw) for inputs made of digits and letters: ValueError unless all digits
ParsesAsInt(s) == s # <<>> /\ \A i \in 1..Len(s) : IsDigit(s[i])

----------------------------------------------------------------------------
(* Configuration *)

COURSE_ACCESS_CODE == <<"l","e","t","m","e","i","n">>
BASE_PRICE_EUR == 900
PROMO_CODE == <<"I","M","P","A","C","T","-","4","3","9">>
PROMO_PRICE_EUR == 439
PROMO_CODE_FREE == <<"I","M","P","A","C","T","-","1","0","0">>
PROMO_PRICE_FREE_EUR == 0
REG_NOTIFY_ENABLED == TRUE

AAI_CODE == <<"A","A","I","-","R","T","D">>
BOOTCAMP_CODE == <<"B","O","O","T","-","A","I","-","2","0","2","4">>
BOOTCAMP_PRICE_EUR == 350
BOOTCAMP_PUBLIC_REGISTRATION == TRUE

NoCourse == [code |-> None, price_eur |-> 0, seat_cap |-> 0,
             has_cap |-> FALSE, requires_access_code |-> TRUE]

\* COURSES; seat_cap None is has_cap = FALSE
COURSES(cap, bprice) ==
    << [code |-> AAI_CODE, price_eur |-> BASE_PRICE_EUR, seat_cap |-> 0,
        has_cap |-> FALSE, requires_access_code |-> TRUE],
       [code |-> BOOTCAMP_CODE, price_eur |-> bprice, seat_cap |-> cap,
        has_cap |-> TRUE, requires_access_code |-> ~BOOTCAMP_PUBLIC_REGISTRATION] >>

\* _course_by_code(code): NoCourse stands for the None result
CourseByCode(code, cap, bprice) ==
    IF ~Truthy(code) THEN NoCourse
    ELSE LET cs == COURSES(cap, bprice)
             hit == {i \in 1..Len(cs) : cs[i].code = code}
         IN  IF hit = {} THEN NoCourse
             ELSE cs[CHOOSE i \in hit : \A j \in hit : i <= j]

\* _course_allows_open_registration(code)
CourseAllowsOpenRegistration(code, cap, bprice) ==
    LET course == CourseByCode(code, cap, bprice)
    IN  IF course = NoCourse THEN FALSE ELSE ~course.requires_access_code

\* selected_course.get("seat_cap") used as a condition: None and 0 are false
SeatCapTruthy(course) == course.has_cap /\ course.seat_cap # 0

\* a variant of ComputePrice: the discount applies when its price equals the base
C16_DiscountNotStrict(promo_input, base) ==
    LET code == Lower(Strip(promo_input))
    IN  IF Truthy(promo_input) /\ PROMO_CODE # <<>> /\ code = Lower(PROMO_CODE)
           /\ PROMO_PRICE_EUR <= base
        THEN [price |-> PROMO_PRICE_EUR, applied |-> PROMO_CODE,
              is_free |-> (PROMO_PRICE_EUR = 0)]
        ELSE IF Truthy(promo_input) /\ PROMO_CODE_FREE # <<>>
                /\ code = Lower(PROMO_CODE_FREE) /\ PROMO_PRICE_FREE_EUR <= base
        THEN [price |-> PROMO_PRICE_FREE_EUR, applied |-> PROMO_CODE_FREE,
              is_free |-> TRUE]
        ELSE [price |-> base, applied |-> None, is_free |-> FALSE]

\* a variant of ComputePrice: the free code needs a base above its price
C17_FreeStrict(promo_input, base) ==
    LET code == Lower(Strip(promo_input))
    IN  IF Truthy(promo_input) /\ PROMO_CODE # <<>> /\ code = Lower(PROMO_CODE)
           /\ PROMO_PRICE_EUR < base
        THEN [price |-> PROMO_PRICE_EUR, applied |-> PROMO_CODE,
              is_free |-> (PROMO_PRICE_EUR = 0)]
        ELSE IF Truthy(promo_input) /\ PROMO_CODE_FREE # <<>>
                /\ code = Lower(PROMO_CODE_FREE) /\ PROMO_PRICE_FREE_EUR < base
        THEN [price |-> PROMO_PRICE_FREE_EUR, applied |-> PROMO_CODE_FREE,
              is_free |-> TRUE]
        ELSE [price |-> base, applied |-> None, is_free |-> FALSE]

\* a variant of ComputePrice: any code that was typed in gets the discount
C18_AnyCodeGetsDiscount(promo_input, base) ==
    IF Truthy(promo_input) /\ PROMO_PRICE_EUR < base
    THEN [price |-> PROMO_PRICE_EUR, applied |-> PROMO_CODE,
          is_free |-> (PROMO_PRICE_EUR = 0)]
    ELSE [price |-> base, applied |-> None, is_free |-> FALSE]

\* a variant of ComputePrice: the codes apply whatever the base price is
C27_CodesIgnoreBase(promo_input, base) ==
    LET code == Lower(Strip(promo_input))
    IN  IF Truthy(promo_input) /\ PROMO_CODE # <<>> /\ code = Lower(PROMO_CODE)
        THEN [price |-> PROMO_PRICE_EUR, applied |-> PROMO_CODE,
              is_free |-> (PROMO_PRICE_EUR = 0)]
        ELSE IF Truthy(promo_input) /\ PROMO_CODE_FREE # <<>>
                /\ code = Lower(PROMO_CODE_FREE)
        THEN [price |-> PROMO_PRICE_FREE_EUR, applied |-> PROMO_CODE_FREE,
              is_free |-> TRUE]
        ELSE [price |-> base, applied |-> None, is_free |-> FALSE]

\* _compute_price(promo_input, base_price)
ComputePrice(promo_input, base) ==
    LET code == Lower(Strip(promo_input))
    IN  IF Truthy(promo_input) /\ PROMO_CODE # <<>> /\ code = Lower(PROMO_CODE)
           /\ PROMO_PRICE_EUR < base
        THEN [price |-> PROMO_PRICE_EUR, applied |-> PROMO_CODE,
              is_free |-> (PROMO_PRICE_EUR = 0)]
        ELSE IF Truthy(promo_input) /\ PROMO_CODE_FREE # <<>>
                /\ code = Lower(PROMO_CODE_FREE) /\ PROMO_PRICE_FREE_EUR <= base
        THEN [price |-> PROMO_PRICE_FREE_EUR, applied |-> PROMO_CODE_FREE,
              is_free |-> TRUE]
        ELSE [price |-> base, applied |-> None, is_free |-> FALSE]

\* a variant of RequireSignedIn: the gate lets every session through
C26_GateOpen(code, sess, cap, bprice) == TRUE

\* _require_signed_in(course_code)
RequireSignedIn(code, sess, cap, bprice) ==
    IF CourseAllowsOpenRegistration(code, cap, bprice) THEN TRUE
    ELSE sess.signed_in

\* select count(*) from registrations where course_session_code = code
CountFor(table, code) ==
    Cardinality({i \in 1..Len(table) : table[i].course_session_code = code})

----------------------------------------------------------------------------
(* submit: validation (lines 565-621) *)

\* user_email = _s(form.user_email) or session.get("user_email")
EffectiveEmail(f, sess) ==
    IF StripToNone(f.user_email) # None THEN StripToNone(f.user_email)
    ELSE sess.user_email

EmailErrors(user_email) ==
    IF ~Truthy(user_email) THEN <<"email_required">> ELSE <<>>

\* a variant of NameErrors: the last name is looked at only when the first
\* name is there
C11_NameErrorsStopAtFirst(f) ==
    IF StripToNone(f.first_name) = None THEN <<"first_name_required">>
    ELSE IF StripToNone(f.last_name) = None THEN <<"last_name_required">>
    ELSE <<>>

NameErrors(f) ==
    (IF StripToNone(f.first_name) = None THEN <<"first_name_required">> ELSE <<>>)
    \o (IF StripToNone(f.last_name) = None THEN <<"last_name_required">> ELSE <<>>)

AgeErrors(f) ==
    LET age_raw == StripToNone(f.age)
    IN  IF age_raw = None THEN <<>>
        ELSE IF ~ParsesAsInt(age_raw) THEN <<"age_not_whole_number">>
        ELSE IF ~(10 <= DecimalValue(age_raw) /\ DecimalValue(age_raw) <= 120)
             THEN <<"age_out_of_range">>
        ELSE <<>>

\* a variant of CourseErrors: an unknown course code is not reported
C10_UnknownCourseAccepted(course) == <<>>

CourseErrors(course) ==
    IF course = NoCourse THEN <<"invalid_course">> ELSE <<>>

\* the pre-check's else-branch: existing >= seat_cap
PreCheckErrors(existing, seat_cap) ==
    IF existing >= seat_cap THEN <<"cohort_full">> ELSE <<>>

\* a variant of ConsentErrors: any submitted value counts as consent
C9_ConsentOnlyWhenAbsent(f) ==
    IF f.data_processing_ok = None THEN <<"consent_required">> ELSE <<>>

ConsentErrors(f) ==
    IF ~ToBool(f.data_processing_ok, FALSE) THEN <<"consent_required">> ELSE <<>>

\* the check inside the insert transaction: current >= cap raises SeatCapReached
TxSeatCapReached(current, cap) == current >= cap

\* the personal contact fields and the invoice fields that follow them
PersonalFields ==
    {"phone", "address_line1", "address_line2", "city", "state", "postal_code",
     "country"}

InvoiceFields ==
    {"invoice_name", "invoice_email", "invoice_phone", "invoice_addr_line1",
     "invoice_addr_line2", "invoice_city", "invoice_state",
     "invoice_postal_code", "invoice_country"}

\* " ".join([v for v in [first_name, last_name] if v])
FullName(first, last) ==
    IF Truthy(first) /\ Truthy(last) THEN first \o <<" ">> \o last
    ELSE IF Truthy(first) THEN first
    ELSE IF Truthy(last) THEN last
    ELSE <<>>

\* lines 704-712: the right-hand operand of each `or`
PersonalValueFor(d, k) ==
    CASE k = "invoice_name" -> FullName(d.first_name, d.last_name)
      [] k = "invoice_email" -> d.user_email
      [] k = "invoice_phone" -> d.phone
      [] k = "invoice_addr_line1" -> d.address_line1
      [] k = "invoice_addr_line2" -> d.address_line2
      [] k = "invoice_city" -> d.city
      [] k = "invoice_state" -> d.state
      [] k = "invoice_postal_code" -> d.postal_code
      [] k = "invoice_country" -> d.country

\* a variant of BillingAutofill: the personal values replace what was typed in
C19_AutofillOverwrites(d, same) ==
    IF same
    THEN [k \in DOMAIN d |->
            IF k \in InvoiceFields THEN PersonalValueFor(d, k) ELSE d[k]]
    ELSE d

\* lines 701-712: data[k] = data[k] or <personal value> for each invoice field
BillingAutofill(d, same) ==
    IF same
    THEN [k \in DOMAIN d |->
            IF k \in InvoiceFields /\ ~Truthy(d[k])
            THEN PersonalValueFor(d, k) ELSE d[k]]
    ELSE d

\* request.form.get(k): None for a field the form does not have
FormGet(f, k) == IF k \in DOMAIN f THEN f[k] ELSE None

\* lines 646-712: the part of the data dict the claims read
BuildData(f, user_email, code, price) ==
    LET d == [user_email |-> user_email,
              first_name |-> StripToNone(f.first_name),
              last_name |-> StripToNone(f.last_name),
              course_session_code |-> code,
              promo_applied |-> (price.applied # None),
              is_free |-> (price.applied # None /\ price.is_free),
              price_eur |-> price.price,
              data_processing_ok |-> ToBool(f.data_processing_ok, FALSE)]
             @@ [k \in PersonalFields \cup InvoiceFields |->
                    StripToNone(FormGet(f, k))]
    IN  BillingAutofill(d, ToBool(FormGet(f, "billing_same_as_personal"), TRUE))

NoData ==
    [user_email |-> None, first_name |-> None, last_name |-> None,
     course_session_code |-> None, promo_applied |-> FALSE,
     is_free |-> FALSE, price_eur |-> 0, data_processing_ok |-> FALSE]
    @@ [k \in PersonalFields \cup InvoiceFields |-> None]

\* a form with the fields of the field checks left out or blank; the other
\* fields are absent
NoForm == [user_email |-> None, first_name |-> None, last_name |-> None,
           age |-> None, course_session_code |-> None, promo_code |-> None,
           data_processing_ok |-> None]

NoPrice == [price |-> 0, applied |-> None, is_free |-> FALSE]

\* a worker that handles no request
IdleReq ==
    [pc |-> "idle", form |-> NoForm, user_email |-> None,
     errors |-> <<>>, price |-> NoPrice, data |-> NoData,
     db_reads |-> 0, tx_begun |-> FALSE, tx_full |-> FALSE, inserted |-> 0,
     mail |-> "none", mail_fault |-> "none", mail_logged |-> FALSE,
     outcome |-> "none", status |-> 0]

\* a variant of ErrorStatus: the form is re-rendered without the 400
C4_ErrorStatusOk(errors) == 200

\* line 644: the status of the response that re-displays the form
ErrorStatus(errors) == 400

\* lines 608-699: price, consent, then either the 400 response or the data dict
FinishValidation(q, errs, cap, bprice) ==
    LET f == q.form
        code == StripToNone(f.course_session_code)
        course == CourseByCode(code, cap, bprice)
        base == IF course # NoCourse THEN course.price_eur ELSE BASE_PRICE_EUR
        price == ComputePrice(StripToNone(f.promo_code), base)
        all == errs \o ConsentErrors(f)
    IN  IF all # <<>>
        THEN [q EXCEPT !.pc = "done", !.errors = all, !.price = price,
                       !.outcome = "validation_errors", !.status = ErrorStatus(all)]
        ELSE [q EXCEPT !.pc = IF SeatCapTruthy(course) THEN "tx_count" ELSE "tx_insert",
                       !.errors = all, !.price = price,
                       !.data = BuildData(f, q.user_email, code, price)]

----------------------------------------------------------------------------
(* The database *)

\* a variant of InsertRow: the row survives a failed commit
C3_InsertSurvivesFailedCommit(table, data, committed) == Append(table, data)

\* a variant of InsertRow: the insert is executed twice
C24_InsertTwice(table, data, committed) ==
    IF committed THEN Append(Append(table, data), data) ELSE table

\* conn.execute(registrations.insert().values(**data)) and the commit at the
\* end of `with engine.begin()`: all or nothing
InsertRow(table, data, committed) ==
    IF committed THEN Append(table, data) ELSE table

----------------------------------------------------------------------------
(* Requests *)

\* lines 559-606 up to the first database access: the sign-in gate and the
\* field checks.  A course with a seat cap goes on to the pre-check read.
SubmitBegin(r, f) ==
    /\ req[r].pc = "idle"
    /\ Len(rows) < MaxRows
    /\ LET code == StripToNone(f.course_session_code)
           course == CourseByCode(code, seatCap, bootPrice)
           q == [IdleReq EXCEPT !.form = f, !.user_email = EffectiveEmail(f, session)]
           errs == EmailErrors(q.user_email) \o NameErrors(f) \o AgeErrors(f)
                   \o CourseErrors(course)
       IN  req' = [req EXCEPT ![r] =
                IF ~RequireSignedIn(code, session, seatCap, bootPrice)
                THEN [q EXCEPT !.pc = "done", !.outcome = "signin_redirect",
                               !.status = 302]
                ELSE IF course # NoCourse /\ SeatCapTruthy(course)
                THEN [q EXCEPT !.pc = "precheck", !.errors = errs]
                ELSE FinishValidation(q, errs, seatCap, bootPrice)]
    /\ UNCHANGED <<rows, session, seatCap, bootPrice, preview, priceCall, aux>>

\* lines 595-606: the seat pre-check on its own connection, then lines 608-644
PreCheck(r) ==
    /\ req[r].pc = "precheck"
    /\ \E db_ok \in BOOLEAN :
         LET q == req[r]
             code == StripToNone(q.form.course_session_code)
             course == CourseByCode(code, seatCap, bootPrice)
             existing == CountFor(rows, code)
             errs == IF db_ok
                     THEN q.errors \o PreCheckErrors(existing, course.seat_cap)
                     ELSE q.errors \o <<"availability_unverified">>
             q2 == [q EXCEPT !.db_reads = @ + 1]
         IN  req' = [req EXCEPT ![r] = FinishValidation(q2, errs, seatCap, bootPrice)]
    /\ UNCHANGED <<rows, session, seatCap, bootPrice, preview, priceCall, aux>>

\* a variant of ExceptOutcome: every exception is answered as a full cohort
C6_ExceptAsSeatCapReached(seat_cap_reached) == "seat_cap_reached"

\* a variant of ExceptOutcome: no except clause for SeatCapReached
C8_ExceptAsGenericFailure(seat_cap_reached) == "generic_failure"

\* the except clauses of lines 734-740: the response to an exception raised
\* inside the try block
ExceptOutcome(seat_cap_reached) ==
    IF seat_cap_reached THEN "seat_cap_reached" ELSE "generic_failure"

\* lines 715-723: engine.begin() and the count inside the insert transaction
TxCount(r) ==
    /\ req[r].pc = "tx_count"
    /\ \E db_ok \in BOOLEAN :
         LET q == req[r]
             code == q.data.course_session_code
             course == CourseByCode(code, seatCap, bootPrice)
             current == CountFor(rows, code)
             full == db_ok /\ TxSeatCapReached(current, course.seat_cap)
         IN  req' = [req EXCEPT ![r] =
                IF ~db_ok \/ full
                THEN [q EXCEPT !.pc = "done", !.tx_begun = TRUE, !.db_reads = @ + 1,
                               !.tx_full = full,
                               !.outcome = ExceptOutcome(full), !.status = 302]
                ELSE [q EXCEPT !.pc = "tx_insert", !.tx_begun = TRUE,
                               !.db_reads = @ + 1]]
    /\ UNCHANGED <<rows, session, seatCap, bootPrice, preview, priceCall, aux>>

\* line 724 and the commit; lines 737-740 when it fails
TxInsert(r) ==
    /\ req[r].pc = "tx_insert"
    /\ \E db_ok \in BOOLEAN :
         /\ rows' = InsertRow(rows, req[r].data, db_ok)
         /\ req' = [req EXCEPT ![r] =
                IF db_ok
                THEN [@ EXCEPT !.pc = "notify", !.tx_begun = TRUE,
                               !.inserted = Len(rows') - Len(rows)]
                ELSE [@ EXCEPT !.pc = "done", !.tx_begun = TRUE,
                               !.inserted = Len(rows') - Len(rows),
                               !.outcome = ExceptOutcome(FALSE), !.status = 302]]
    /\ UNCHANGED <<session, seatCap, bootPrice, preview, priceCall, aux>>

\* what can go wrong between submit's call of _send_registration_email and the
\* end of the SMTP conversation
MailFaults ==
    {"none", "wrong_backend", "missing_credentials", "compose_error",
     "message_error", "smtp_error"}

\* _send_email_smtp (lines 86-116): the two configuration checks return False
\* after a warning; the EmailMessage is built before the try, so an error
\* there is raised to the caller; an error of the SMTP conversation is caught,
\* logged and answered with False
SendEmailSmtp(fault) ==
    CASE fault \in {"wrong_backend", "missing_credentials"} ->
            [ok |-> FALSE, raised |-> FALSE, logged |-> TRUE]
      [] fault = "message_error" ->
            [ok |-> FALSE, raised |-> TRUE, logged |-> FALSE]
      [] fault = "smtp_error" ->
            [ok |-> FALSE, raised |-> FALSE, logged |-> TRUE]
      [] OTHER ->
            [ok |-> TRUE, raised |-> FALSE, logged |-> TRUE]

\* a variant of SendRegistrationEmail: no try around the composing and sending
C21_NoOuterTry(fault) ==
    IF ~REG_NOTIFY_ENABLED THEN [mail |-> "off", logged |-> FALSE]
    ELSE IF fault = "compose_error" THEN [mail |-> "raised", logged |-> FALSE]
    ELSE LET sent == SendEmailSmtp(fault)
         IN  IF sent.raised THEN [mail |-> "raised", logged |-> sent.logged]
             ELSE IF sent.ok THEN [mail |-> "sent", logged |-> sent.logged]
             ELSE [mail |-> "failed", logged |-> TRUE]

\* _send_registration_email(reg), lines 118-136: "off" (disabled), "sent",
\* "failed" (False returned, or an exception caught and logged); "raised"
\* would be an exception leaving the function
SendRegistrationEmail(fault) ==
    IF ~REG_NOTIFY_ENABLED THEN [mail |-> "off", logged |-> FALSE]
    ELSE IF fault = "compose_error" THEN [mail |-> "failed", logged |-> TRUE]
    ELSE LET sent == SendEmailSmtp(fault)
         IN  IF sent.raised THEN [mail |-> "failed", logged |-> TRUE]
             ELSE IF sent.ok THEN [mail |-> "sent", logged |-> sent.logged]
             ELSE [mail |-> "failed", logged |-> TRUE]

\* a variant of OutcomeAfterEmail: a failed email reaches the outer except
C5_MailFailureFailsSubmit(mail) ==
    IF mail = "failed" THEN "generic_failure" ELSE "success"

\* lines 725-733: whatever the email did (the call has a try of its own), the
\* success flash and redirect follow
OutcomeAfterEmail(mail) == "success"

\* lines 725-733: the post-commit email, then the success redirect.  At
\* "notify" the handler is inside _send_registration_email, waiting on the
\* SMTP conversation of lines 103-111; the step is taken when the mail
\* transport has answered (delivered) or the conversation has failed.
\* smtplib.SMTP_SSL / smtplib.SMTP get no timeout argument, so nothing but the
\* transport ends the wait.
NotifyWith(r, faults) ==
    /\ req[r].pc = "notify"
    /\ \E fault \in faults :
         LET res == SendRegistrationEmail(fault)
         IN  req' = [req EXCEPT ![r] =
                [@ EXCEPT !.pc = "done", !.mail = res.mail,
                          !.mail_fault = fault, !.mail_logged = res.logged,
                          !.outcome = OutcomeAfterEmail(res.mail), !.status = 302]]
    /\ UNCHANGED <<rows, session, seatCap, bootPrice, preview, priceCall, aux>>

\* the email is delivered or the SMTP conversation fails
Notify(r) == NotifyWith(r, {"none", "smtp_error"})

\* the response leaves the worker, which is free again
Respond(r) ==
    /\ req[r].pc = "done"
    /\ req' = [req EXCEPT ![r] = IdleReq]
    /\ UNCHANGED <<rows, session, seatCap, bootPrice, preview, priceCall, aux>>

\* signin(): lines 524-529, the session after the request
SigninSession(sess, access_code, user_email) ==
    IF Strip(IF access_code = None THEN <<>> ELSE access_code) = COURSE_ACCESS_CODE
    THEN [signed_in |-> TRUE, user_email |-> StripToNone(user_email)]
    ELSE sess

\* logout(): session.clear()
ClearedSession == [signed_in |-> FALSE, user_email |-> None]

\* signin(): lines 522-535
Signin(access_code, user_email) ==
    /\ session' = SigninSession(session, access_code, user_email)
    /\ UNCHANGED <<rows, req, seatCap, bootPrice, preview, priceCall, aux>>

\* logout(): lines 537-541
Logout ==
    /\ session' = ClearedSession
    /\ UNCHANGED <<rows, req, seatCap, bootPrice, preview, priceCall, aux>>

----------------------------------------------------------------------------
(* subscriptions.py: create_subscription *)

MaxSubscriptions == 3    \* requests are accepted while the table has fewer rows

Pending == <<"p","e","n","d","i","n","g">>
Confirmed == <<"c","o","n","f","i","r","m","e","d">>
Unsubscribed == <<"u","n","s","u","b","s","c","r","i","b","e","d">>
Subscribe == <<"s","u","b","s","c","r","i","b","e">>
Subscribed == <<"s","u","b","s","c","r","i","b","e","d">>

\* allowed_order without SUBSCRIPTION_ALLOWED_STATUSES in the app config
AllowedStatuses == {Pending, Confirmed, Unsubscribed}

\* default_status without SUBSCRIPTION_DEFAULT_STATUS in the app config
DefaultStatus == Confirmed

\* _normalize_status(raw_status)
NormalizeStatus(raw_status) ==
    LET key == Lower(Strip(raw_status))
    IN  IF Truthy(raw_status) /\ key \in AllowedStatuses THEN key
        ELSE IF Truthy(raw_status) /\ key \in {Subscribe, Subscribed}
                /\ Confirmed \in AllowedStatuses
        THEN Confirmed
        ELSE DefaultStatus

\* a variant of NormalizeSubscriberEmail: the letter case is kept
C28_EmailKeepsCase(raw) == IF Truthy(raw) THEN Strip(raw) ELSE <<>>

\* email = (payload.get("email") or "").strip().lower()
NormalizeSubscriberEmail(raw) == IF Truthy(raw) THEN Lower(Strip(raw)) ELSE <<>>

\* not email or "@" not in email
SubscriberEmailRefused(email) ==
    email = <<>> \/ ~(\E i \in 1..Len(email) : email[i] = "@")

\* select_sql: the newest row whose lower(email) is the email, 0 for none
SelectSubscription(table, email) ==
    LET hit == {i \in 1..Len(table) : Lower(table[i].email) = email}
    IN  IF hit = {} THEN 0
        ELSE CHOOSE i \in hit : \A j \in hit : j <= i

\* a variant of ShouldSendWelcome: every confirmed write is welcomed
C29_WelcomeEveryConfirmed(is_unsubscribed, created, existing_status, status) ==
    ~is_unsubscribed /\ (created \/ status = Confirmed)

\* should_send_welcome, lines 261-266
ShouldSendWelcome(is_unsubscribed, created, existing_status, status) ==
    IF ~is_unsubscribed
    THEN IF created THEN TRUE
         ELSE existing_status # Confirmed /\ status = Confirmed
    ELSE FALSE

\* no create_subscription request has arrived
NoSubResp ==
    [pc |-> "idle", email_raw |-> None, email |-> <<>>, status |-> None,
     want_json |-> FALSE, id |-> 0, created |-> FALSE,
     existing_status |-> None, attempted |-> FALSE, email_sent |-> TRUE,
     http |-> 0, error |-> "none"]

SubscriptionsIdle == subscriptions = <<>> /\ subResp = NoSubResp

\* the outcomes of the engine and of the transaction of lines 237-252
WriteFaults == {"none", "no_engine", "write_error"}

\* create_subscription(), lines 90-257: the request up to the end of its
\* transaction; the next request arrives when this one has been answered
CreateSubscriptionWrite(email_raw, status_raw, want_json, fault) ==
    /\ subResp.pc # "written"
    /\ Len(subscriptions) < MaxSubscriptions
    /\ LET email == NormalizeSubscriberEmail(email_raw)
           status == NormalizeStatus(status_raw)
           q == [NoSubResp EXCEPT !.email_raw = email_raw, !.email = email,
                                  !.want_json = want_json]
           existing == SelectSubscription(subscriptions, email)
           row == [id |-> Len(subscriptions) + 1, email |-> email,
                   status |-> status]
       IN  IF fault = "no_engine"
           THEN /\ subResp' = [q EXCEPT !.pc = "done", !.http = 500,
                                        !.error = "unavailable"]
                /\ UNCHANGED subscriptions
           ELSE IF SubscriberEmailRefused(email)
           THEN /\ subResp' = [q EXCEPT !.pc = "done",
                                        !.http = IF want_json THEN 400 ELSE 302,
                                        !.error = "invalid_email"]
                /\ UNCHANGED subscriptions
           ELSE IF fault = "write_error"
           THEN /\ subResp' = [q EXCEPT !.pc = "done", !.status = status,
                                        !.http = IF want_json THEN 500 ELSE 302,
                                        !.error = "internal_error"]
                /\ UNCHANGED subscriptions
           ELSE IF existing # 0
           THEN /\ subscriptions' =
                     [subscriptions EXCEPT ![existing].status = status]
                /\ subResp' =
                     [q EXCEPT !.pc = "written", !.status = status,
                               !.id = subscriptions[existing].id,
                               !.created = FALSE,
                               !.existing_status =
                                   IF Truthy(subscriptions[existing].status)
                                   THEN Lower(Strip(subscriptions[existing].status))
                                   ELSE None]
           ELSE /\ subscriptions' = Append(subscriptions, row)
                /\ subResp' = [q EXCEPT !.pc = "written", !.status = status,
                                        !.id = row.id, !.created = TRUE]
    /\ UNCHANGED <<registration, service, script>>

\* create_subscription(), lines 259-303: the welcome email and the answer;
\* delivered is FALSE when _send_subscription_welcome_email returns False or
\* raises
CreateSubscriptionWelcome(delivered) ==
    /\ subResp.pc = "written"
    /\ LET should_send_welcome ==
               ShouldSendWelcome(subResp.status = Unsubscribed, subResp.created,
                                 subResp.existing_status, subResp.status)
           email_sent == IF should_send_welcome THEN delivered ELSE TRUE
       IN  subResp' =
             IF should_send_welcome /\ ~email_sent
             THEN [subResp EXCEPT !.pc = "done", !.attempted = TRUE,
                                  !.email_sent = FALSE,
                                  !.http = IF subResp.want_json THEN 502 ELSE 302,
                                  !.error = "email_send_failed"]
             ELSE [subResp EXCEPT !.pc = "done",
                                  !.attempted = should_send_welcome,
                                  !.email_sent = email_sent,
                                  !.http = IF subResp.want_json THEN 200 ELSE 302]
    /\ UNCHANGED <<registration, subscriptions, service, script>>

----------------------------------------------------------------------------
(* command/RESTART.py *)

MaxPolls == 2    \* wait_for_state queries the service up to MaxPolls times
                 \* before its deadline

KILL_ON_STUCK == TRUE

\* the process ids a started service may get
Pids == {1, 2}

\* parse_state(sc_query(name)): "" is blank output, UNKNOWN is output without
\* a STATE line
ReportedStates ==
    {"", "UNKNOWN", "RUNNING", "STOP_PENDING", "STOPPED", "START_PENDING"}

\* what sc queryex reports: a service with a process has its PID, every other
\* one has PID 0 or no PID line, and both are false for `if pidx`
ServiceReports ==
    { sv \in [state : ReportedStates, pid : Pids \cup {0}] :
        (sv.pid = 0) <=> (sv.state \in {"", "UNKNOWN", "STOPPED"}) }

\* the service control manager moves the service along its life cycle
ServiceAfter(sv) ==
    CASE sv.state = "RUNNING" ->
           {[sv EXCEPT !.state = "STOP_PENDING"], [state |-> "STOPPED", pid |-> 0]}
      [] sv.state = "STOP_PENDING" -> {[state |-> "STOPPED", pid |-> 0]}
      [] sv.state = "STOPPED" ->
           {[state |-> "START_PENDING", pid |-> p] : p \in Pids}
      [] sv.state = "START_PENDING" ->
           {[sv EXCEPT !.state = "RUNNING"], [state |-> "STOPPED", pid |-> 0]}
      [] OTHER -> {}

\* the script has not been started
NoRun ==
    [pc |-> "main", cmds |-> <<>>, polls |-> 0, st0 |-> "none", pid0 |-> 0,
     waited |-> <<>>, ps_rc |-> 0, stx |-> "none", pidx |-> 0,
     stopped |-> "none", started |-> "none", new_pid |-> 0, exit |-> -1]

TunnelIdle == service = [state |-> "STOPPED", pid |-> 0] /\ script = NoRun

\* a variant of StopNeeded: the stop commands are issued in every state
C30_StopInAnyState(st0) == TRUE

\* line 76: if st0 != "RUNNING": return True, pid0
StopNeeded(st0) == st0 = "RUNNING"

\* stop_service returns (stopped, pid0) and main goes on: lines 140-142
AfterStop(run, stopped) ==
    IF stopped
    THEN [run EXCEPT !.stopped = "yes", !.pc = "start"]
    ELSE [run EXCEPT !.stopped = "no", !.pc = "exit", !.exit = 2]

\* where the caller of wait_for_state goes on with its result
Goes(run, to) ==
    CASE to = "stopped" -> AfterStop(run, TRUE)
      [] to = "not_stopped" -> AfterStop(run, FALSE)
      [] to = "started" -> [run EXCEPT !.started = "yes", !.pc = "start_query"]
      [] to = "not_started" -> [run EXCEPT !.started = "no", !.pc = "start_query"]
      [] OTHER -> [run EXCEPT !.pc = to]

\* one query of wait_for_state(name, target, timeout_s): lines 55-63; the
\* caller goes to `found` when the target is seen, to `missed` on a timeout
Poll(at, target, found, missed) ==
    /\ script.pc = at
    /\ script' =
         IF service.state = target
         THEN Goes([script EXCEPT !.waited = Append(@, "yes"), !.polls = 0], found)
         ELSE IF script.polls > 1
         THEN [script EXCEPT !.polls = @ - 1]
         ELSE Goes([script EXCEPT !.waited = Append(@, "no"), !.polls = 0], missed)
    /\ UNCHANGED <<registration, subscriptions, subResp, service>>

\* the service changes state while the script runs
ServiceMoves ==
    /\ script.pc \notin {"main", "exit"}
    /\ service' \in ServiceAfter(service)
    /\ UNCHANGED <<registration, subscriptions, subResp, script>>

\* main(), lines 133-138: without --elevated and without administrator
\* rights the script relaunches itself and exits, with 5 if that failed
Main(privileged, relaunched) ==
    /\ script.pc = "main"
    /\ script' =
         IF privileged THEN [script EXCEPT !.pc = "stop_service"]
         ELSE [script EXCEPT !.pc = "exit",
                             !.exit = IF relaunched THEN 0 ELSE 5]
    /\ UNCHANGED <<registration, subscriptions, subResp, service>>

\* stop_service(), lines 67-77
StopQuery ==
    /\ script.pc = "stop_service"
    /\ LET q == [script EXCEPT !.st0 = IF service.state = "" THEN "none"
                                       ELSE service.state,
                               !.pid0 = service.pid]
       IN  script' =
             IF service.state = "" THEN AfterStop(script, FALSE)
             ELSE IF ~StopNeeded(service.state) THEN AfterStop(q, TRUE)
             ELSE [q EXCEPT !.pc = "sc_stop"]
    /\ UNCHANGED <<registration, subscriptions, subResp, service>>

\* lines 79-85: sc stop, whatever its return code
ScStop ==
    /\ script.pc = "sc_stop"
    /\ script' = [script EXCEPT !.cmds = Append(@, "sc stop"),
                                !.pc = "wait_stop", !.polls = MaxPolls]
    /\ UNCHANGED <<registration, subscriptions, subResp, service>>

\* line 87
WaitStop == Poll("wait_stop", "STOPPED", "stopped", "powershell")

\* lines 91-94: Stop-Service -Force; the wait is made only after return code 0
PowerShell(rc) ==
    /\ script.pc = "powershell"
    /\ script' =
         IF rc = 0
         THEN [script EXCEPT !.cmds = Append(@, "Stop-Service"), !.ps_rc = rc,
                             !.pc = "wait_forced", !.polls = MaxPolls]
         ELSE [script EXCEPT !.cmds = Append(@, "Stop-Service"), !.ps_rc = rc,
                             !.pc = "requery"]
    /\ UNCHANGED <<registration, subscriptions, subResp, service>>

\* line 94
WaitForced == Poll("wait_forced", "STOPPED", "stopped", "requery")

\* lines 98-102 and 111-113
Requery ==
    /\ script.pc = "requery"
    /\ LET q == [script EXCEPT !.stx = service.state, !.pidx = service.pid]
       IN  script' =
             IF KILL_ON_STUCK /\ service.pid # 0
             THEN [q EXCEPT !.pc = "taskkill"]
             ELSE AfterStop(q, FALSE)
    /\ UNCHANGED <<registration, subscriptions, subResp, service>>

\* lines 103-106: taskkill /PID pidx /T /F, whatever its return code
Taskkill ==
    /\ script.pc = "taskkill"
    /\ script' = [script EXCEPT !.cmds = Append(@, "taskkill"),
                                !.pc = "wait_killed", !.polls = MaxPolls]
    /\ UNCHANGED <<registration, subscriptions, subResp, service>>

\* lines 107-113
WaitKilled == Poll("wait_killed", "STOPPED", "stopped", "not_stopped")

\* start_service(), lines 116-121: sc start, whatever its return code
StartService ==
    /\ script.pc = "start"
    /\ script' = [script EXCEPT !.cmds = Append(@, "sc start"),
                                !.pc = "wait_start", !.polls = MaxPolls]
    /\ UNCHANGED <<registration, subscriptions, subResp, service>>

\* line 123
WaitStart == Poll("wait_start", "RUNNING", "started", "not_started")

\* lines 125-130 and 144-152: the last query, then exit 3 or the end of main
StartQuery ==
    /\ script.pc = "start_query"
    /\ script' = [script EXCEPT !.new_pid = service.pid, !.pc = "exit",
                                !.exit = IF script.started = "yes" THEN 0 ELSE 3]
    /\ UNCHANGED <<registration, subscriptions, subResp, service>>

----------------------------------------------------------------------------
(* The answers of page, signin and logout *)

\* no page, signin or logout request has been answered
NoResp == [view |-> "none", access_code |-> None, course |-> None,
           status |-> 0, location |-> "none", signed_in |-> FALSE,
           user_email |-> None]

AuxIdle == lastResp = NoResp /\ SubscriptionsIdle /\ TunnelIdle

\* page(): lines 492-520; always the rendered form, never a redirect
PageView(course_raw) ==
    /\ lastResp' =
          [view |-> "page", access_code |-> None, course |-> course_raw,
           status |-> 200, location |-> "none",
           signed_in |-> (session.signed_in
                          \/ CourseAllowsOpenRegistration(StripToNone(course_raw),
                                                          seatCap, bootPrice)),
           user_email |-> session.user_email]
    /\ UNCHANGED <<rows, req, session, seatCap, bootPrice, preview, priceCall,
                   elsewhere>>

\* signin() with its response: a redirect to the registration page
SigninView(access_code, user_email) ==
    /\ session' = SigninSession(session, access_code, user_email)
    /\ lastResp' =
          [view |-> "signin", access_code |-> access_code, course |-> None,
           status |-> 302, location |-> "register.page",
           signed_in |-> session'.signed_in, user_email |-> session'.user_email]
    /\ UNCHANGED <<rows, req, seatCap, bootPrice, preview, priceCall, elsewhere>>

\* logout() with its response
LogoutView ==
    /\ session' = ClearedSession
    /\ lastResp' =
          [view |-> "logout", access_code |-> None, course |-> None,
           status |-> 302, location |-> "register.page",
           signed_in |-> FALSE, user_email |-> None]
    /\ UNCHANGED <<rows, req, seatCap, bootPrice, preview, priceCall, elsewhere>>

NoPreview == [code |-> None, course |-> None, price_eur |-> 0,
              promo_applied |-> FALSE, is_free |-> FALSE, base_price_eur |-> 0]

\* a variant of PricePreviewResult: the base price is not the course's
C7_PreviewIgnoresCourse(code, course_raw, cap, bprice) ==
    LET p == ComputePrice(code, BASE_PRICE_EUR)
    IN  [code |-> code, course |-> course_raw, price_eur |-> p.price,
         promo_applied |-> (p.applied # None), is_free |-> p.is_free,
         base_price_eur |-> BASE_PRICE_EUR]

\* price_preview(): lines 543-555, for form or query-string input
PricePreviewResult(code, course_raw, cap, bprice) ==
    LET course == CourseByCode(StripToNone(course_raw), cap, bprice)
        base == IF course # NoCourse THEN course.price_eur ELSE BASE_PRICE_EUR
        p == ComputePrice(code, base)
    IN  [code |-> code, course |-> course_raw, price_eur |-> p.price,
         promo_applied |-> (p.applied # None), is_free |-> p.is_free,
         base_price_eur |-> base]

PricePreview(code, course_raw) ==
    /\ preview' = PricePreviewResult(code, course_raw, seatCap, bootPrice)
    /\ UNCHANGED <<rows, req, session, seatCap, bootPrice, priceCall, aux>>

----------------------------------------------------------------------------
(* One call of the pricing resolver *)

\* COURSE_INFO["early_bird_deadline"] = "2025-12-20T00:00:00Z", as a day number
EARLY_BIRD_DEADLINE == 20251220

\* no call of the resolver is being looked at
NoCall == [called |-> FALSE, promo_input |-> None, base |-> 0,
           has_deadline |-> FALSE, now |-> EARLY_BIRD_DEADLINE, result |-> NoPrice]

\* a variant of ResolvePrice: before the deadline the discount code replaces
\* whatever the caller supplied
C15_AutoApplyOverrides(promo_input, base, now, has_deadline) ==
    IF has_deadline /\ now < EARLY_BIRD_DEADLINE
    THEN ComputePrice(PROMO_CODE, base)
    ELSE ComputePrice(promo_input, base)

\* final_price, promo_applied, is_free = _compute_price(promo_input, base_price)
\* called at time `now` for a course with or without an early-bird deadline:
\* the function gets neither and reads no clock
ResolvePrice(promo_input, base, now, has_deadline) ==
    ComputePrice(promo_input, base)

Resolve ==
    /\ ~priceCall.called
    /\ priceCall' = [priceCall EXCEPT
            !.called = TRUE,
            !.result = ResolvePrice(priceCall.promo_input, priceCall.base,
                                    priceCall.now, priceCall.has_deadline)]
    /\ UNCHANGED <<rows, req, session, seatCap, bootPrice, preview, aux>>

----------------------------------------------------------------------------
(* Inputs *)

ValidEmail == <<"a","@","b",".","c">>
NoAtEmail == <<"a","b">>
NoDotEmail == <<"a","@","b">>
SomeName == <<"A","d","a">>
PaddedBootcampCode == <<" ">> \o BOOTCAMP_CODE
UnknownCode == <<"X","-","1">>
LowerPromo == <<"i","m","p","a","c","t","-","4","3","9">>
MixedCasePromo == <<"I","m","p","a","c","t","-","4","3","9">>
PaddedFreePromo == PROMO_CODE_FREE \o <<" ">>
UnknownPromo == <<"U","N","K","N","O","W","N","1","2","3">>
On == <<"o","n">>
WrongAccessCode == <<"l","e","t","m","e">>

\* forms without the billing fields
FormsOf(emails, firsts, lasts, ages, courses, promos, consents) ==
    [user_email : emails, first_name : firsts, last_name : lasts, age : ages,
     course_session_code : courses, promo_code : promos,
     data_processing_ok : consents]

\* the forms of the concurrent specification: valid but for the consent
RaceForms ==
    FormsOf({ValidEmail}, {SomeName}, {SomeName}, {None},
            {AAI_CODE, PaddedBootcampCode}, {None}, {None, On})

\* the forms of the sequential specification: every combination of field values
FieldForms ==
    FormsOf({None, ValidEmail, <<" ">>}, {None, SomeName}, {None, SomeName},
            {None, <<"9">>, <<"1","0">>, <<"x">>},
            {None, AAI_CODE, PaddedBootcampCode, UnknownCode},
            {None}, {None, On, <<" ","O","N">>, <<"n","o">>})

PromoInputs ==
    {None, <<" ">>, PROMO_CODE, LowerPromo, MixedCasePromo, PROMO_CODE_FREE,
     PaddedFreePromo, UnknownPromo}

\* the forms of the email specification: valid but for the email
EmailForms ==
    FormsOf({None, <<" ">>, ValidEmail, NoAtEmail, NoDotEmail},
            {SomeName}, {SomeName}, {None}, {AAI_CODE, PaddedBootcampCode},
            {None}, {On})

SomeLastName == <<"L","o">>

\* a value for each personal contact field and for each invoice field, all
\* different, one of the invoice values padded with a blank
PersonalSample ==
    [phone |-> <<"p","1">>, address_line1 |-> <<"p","2">>,
     address_line2 |-> <<"p","3">>, city |-> <<"p","4">>, state |-> <<"p","5">>,
     postal_code |-> <<"p","6">>, country |-> <<"p","7">>]

InvoiceSample ==
    [invoice_name |-> <<"i","0">>, invoice_email |-> <<"i","@","x",".","y">>,
     invoice_phone |-> <<"i","1">>, invoice_addr_line1 |-> <<"i","2">>,
     invoice_addr_line2 |-> <<"i","3">>, invoice_city |-> <<" ","i","4">>,
     invoice_state |-> <<"i","5">>, invoice_postal_code |-> <<"i","6">>,
     invoice_country |-> <<"i","7">>]

\* the sets of invoice fields a billing form fills in: few, or all but few
FilledSets ==
    {S \in SUBSET InvoiceFields :
        \/ Cardinality(S) <= MaxFilled
        \/ Cardinality(S) >= Cardinality(InvoiceFields) - MaxFilled}

\* a valid form for the bootcamp with the given billing flag, the invoice
\* fields of `filled` typed in and the others left as `blank`, the personal
\* contact fields typed in or not
BillingForm(flag, filled, blank, personal) ==
    [k \in DOMAIN NoForm \cup PersonalFields \cup InvoiceFields
            \cup {"billing_same_as_personal"} |->
        CASE k = "billing_same_as_personal" -> flag
          [] k \in InvoiceFields -> IF k \in filled THEN InvoiceSample[k] ELSE blank
          [] k \in PersonalFields -> IF personal THEN PersonalSample[k] ELSE None
          [] k = "user_email" -> ValidEmail
          [] k = "first_name" -> SomeName
          [] k = "last_name" -> SomeLastName
          [] k = "course_session_code" -> PaddedBootcampCode
          [] k = "data_processing_ok" -> On
          [] OTHER -> None]

\* the forms of the billing specification
BillingForms ==
    {BillingForm(flag, filled, blank, personal) :
        flag \in {None, On, <<"n","o">>}, filled \in FilledSets,
        blank \in {None, <<" ">>}, personal \in BOOLEAN}

\* the forms of the pricing specification: valid, every course and promo input
PriceForms ==
    FormsOf({ValidEmail}, {SomeName}, {SomeName}, {None},
            {AAI_CODE, PaddedBootcampCode}, PromoInputs, {On})

\* values of BOOTCAMP_PRICE_AMOUNT around the two promo prices
BootPrices == {0, PROMO_PRICE_EUR, BOOTCAMP_PRICE_EUR, BASE_PRICE_EUR}

\* the users the tests store: one who may sign in, one who must change the
\* password first
GmailDomain == <<"@","g","m","a","i","l",".","c","o","m">>
TesterEmail == <<"t">> \o GmailDomain
ResetEmail == <<"r">> \o GmailDomain

Users ==
    (TesterEmail :> [must_change_password |-> FALSE])
    @@ (ResetEmail :> [must_change_password |-> TRUE])

AccessCodeInputs == {COURSE_ACCESS_CODE, WrongAccessCode}
SigninEmailInputs == {None, ValidEmail}

----------------------------------------------------------------------------
(* Concurrent submissions: MaxInFlight workers *)

Init ==
    /\ rows = <<>>
    /\ req = [r \in Workers |-> IdleReq]
    /\ session = [signed_in |-> FALSE, user_email |-> None]
    /\ seatCap \in 0..MaxSeatCap
    /\ bootPrice = BOOTCAMP_PRICE_EUR
    /\ preview = NoPreview
    /\ priceCall = NoCall
    /\ AuxIdle

Next ==
    \/ \E r \in Workers, f \in RaceForms : SubmitBegin(r, f)
    \/ \E r \in Workers : PreCheck(r)
    \/ \E r \in Workers : TxCount(r)
    \/ \E r \in Workers : TxInsert(r)
    \/ \E r \in Workers : Notify(r)
    \/ \E r \in Workers : Respond(r)
    \/ \E c \in AccessCodeInputs : Signin(c, ValidEmail)
    \/ Logout

Spec == Init /\ [][Next]_vars

\* Concurrent submissions with the scheduling the server gives: a worker that
\* can take a step of the handler takes it, and the database answers.  No
\* fairness for Notify: whether the SMTP conversation ever ends is up to the
\* mail transport.
LiveSpec ==
    /\ Spec
    /\ \A r \in Workers :
          /\ WF_vars(PreCheck(r))
          /\ WF_vars(TxCount(r))
          /\ WF_vars(TxInsert(r))
          /\ WF_vars(Respond(r))

----------------------------------------------------------------------------
(* Sequential submissions: one worker, every combination of field values *)

SeqNext ==
    \/ \E f \in FieldForms : SubmitBegin(1, f)
    \/ PreCheck(1)
    \/ TxCount(1)
    \/ TxInsert(1)
    \/ Notify(1)
    \/ Respond(1)
    \/ \E c \in AccessCodeInputs, e \in SigninEmailInputs : Signin(c, e)
    \/ Logout

SeqSpec == Init /\ [][SeqNext]_vars

----------------------------------------------------------------------------
(* Pricing: one worker, every promo input, price preview beside the first   *)
(* submissions to an empty table                                           *)

PriceInit ==
    /\ rows = <<>>
    /\ req = [r \in Workers |-> IdleReq]
    /\ session = [signed_in |-> FALSE, user_email |-> None]
    /\ seatCap \in 0..MaxSeatCap
    /\ bootPrice \in BootPrices
    /\ preview = NoPreview
    /\ priceCall = NoCall
    /\ AuxIdle

PriceNext ==
    \/ \E f \in PriceForms : rows = <<>> /\ SubmitBegin(1, f)
    \/ PreCheck(1)
    \/ TxCount(1)
    \/ TxInsert(1)
    \/ Notify(1)
    \/ Respond(1)
    \/ Signin(COURSE_ACCESS_CODE, None)
    \/ \E code \in PromoInputs, c \in {AAI_CODE, PaddedBootcampCode} :
          PricePreview(code, c)

PriceSpec == PriceInit /\ [][PriceNext]_vars

----------------------------------------------------------------------------
(* Emails: one worker, first submissions to an empty table, every form of   *)
(* email, typed in or left to the session                                  *)

EmailNext ==
    \/ \E f \in EmailForms : rows = <<>> /\ SubmitBegin(1, f)
    \/ PreCheck(1)
    \/ TxCount(1)
    \/ TxInsert(1)
    \/ Notify(1)
    \/ Respond(1)
    \/ \E c \in AccessCodeInputs, e \in SigninEmailInputs \cup {NoAtEmail} :
          Signin(c, e)
    \/ Logout

EmailSpec == Init /\ [][EmailNext]_vars

----------------------------------------------------------------------------
(* Sessions: page, signin and logout requests with their responses beside  *)
(* the submissions of one worker                                           *)

SessionNext ==
    \/ \E f \in RaceForms : SubmitBegin(1, f)
    \/ PreCheck(1)
    \/ TxCount(1)
    \/ TxInsert(1)
    \/ Notify(1)
    \/ Respond(1)
    \/ \E c \in AccessCodeInputs, e \in {None, ValidEmail, TesterEmail, ResetEmail} :
          SigninView(c, e)
    \/ LogoutView
    \/ \E c \in {None, AAI_CODE, PaddedBootcampCode} : PageView(c)

SessionSpec == Init /\ [][SessionNext]_vars

----------------------------------------------------------------------------
(* Notification: one worker, first submissions to an empty table, every    *)
(* way the email can fail                                                  *)

NotifyNext ==
    \/ \E f \in RaceForms : rows = <<>> /\ SubmitBegin(1, f)
    \/ PreCheck(1)
    \/ TxCount(1)
    \/ TxInsert(1)
    \/ NotifyWith(1, MailFaults)
    \/ Respond(1)
    \/ \E c \in AccessCodeInputs, e \in SigninEmailInputs : Signin(c, e)
    \/ Logout

NotifySpec == Init /\ [][NotifyNext]_vars

----------------------------------------------------------------------------
(* Billing: one worker, first submissions to an empty table, every billing  *)
(* form                                                                    *)

BillingNext ==
    \/ \E f \in BillingForms : rows = <<>> /\ SubmitBegin(1, f)
    \/ PreCheck(1)
    \/ TxCount(1)
    \/ TxInsert(1)
    \/ Notify(1)
    \/ Respond(1)

BillingSpec == Init /\ [][BillingNext]_vars

----------------------------------------------------------------------------
(* The pricing resolver alone: every promo input, base prices around the   *)
(* two promo prices, times around the early-bird deadline                  *)

BasePrices ==
    {-1, 0, PROMO_PRICE_EUR - 1, PROMO_PRICE_EUR, PROMO_PRICE_EUR + 1,
     BOOTCAMP_PRICE_EUR, BASE_PRICE_EUR}

Times == (EARLY_BIRD_DEADLINE - MaxSkew)..(EARLY_BIRD_DEADLINE + MaxSkew)

ResolverInit ==
    /\ rows = <<>>
    /\ req = [r \in Workers |-> IdleReq]
    /\ session = [signed_in |-> FALSE, user_email |-> None]
    /\ seatCap = 0
    /\ bootPrice = BOOTCAMP_PRICE_EUR
    /\ preview = NoPreview
    /\ priceCall \in [called : {FALSE}, promo_input : PromoInputs,
                      base : BasePrices, has_deadline : BOOLEAN, now : Times,
                      result : {NoPrice}]
    /\ AuxIdle

ResolverNext == Resolve

ResolverSpec == ResolverInit /\ [][ResolverNext]_vars

----------------------------------------------------------------------------
(* Subscriptions: create_subscription requests one after the other, from an *)
(* empty table                                                              *)

UpperValidEmail == <<"A","@","B",".","C">>
PaddedMixedEmail == <<" ","a","@","B",".","c">>
MixedConfirmed == <<"C","o","n","f","i","r","m","e","d">>
UnknownStatus == <<"n","e","w">>

SubscriberEmailInputs ==
    {None, NoAtEmail, ValidEmail, UpperValidEmail, PaddedMixedEmail, TesterEmail}

StatusInputs ==
    {None, Pending, Unsubscribed, MixedConfirmed, Subscribed, UnknownStatus}

SubscriptionInit ==
    /\ rows = <<>>
    /\ req = [r \in Workers |-> IdleReq]
    /\ session = [signed_in |-> FALSE, user_email |-> None]
    /\ seatCap = 0
    /\ bootPrice = BOOTCAMP_PRICE_EUR
    /\ preview = NoPreview
    /\ priceCall = NoCall
    /\ AuxIdle

SubscriptionNext ==
    \/ \E e \in SubscriberEmailInputs, st \in StatusInputs, j \in BOOLEAN,
          fault \in WriteFaults :
          CreateSubscriptionWrite(e, st, j, fault)
    \/ \E delivered \in BOOLEAN : CreateSubscriptionWelcome(delivered)

SubscriptionSpec == SubscriptionInit /\ [][SubscriptionNext]_vars

----------------------------------------------------------------------------
(* The tunnel restart script: one run, the service in any reported state    *)

TunnelInit ==
    /\ rows = <<>>
    /\ req = [r \in Workers |-> IdleReq]
    /\ session = [signed_in |-> FALSE, user_email |-> None]
    /\ seatCap = 0
    /\ bootPrice = BOOTCAMP_PRICE_EUR
    /\ preview = NoPreview
    /\ priceCall = NoCall
    /\ lastResp = NoResp
    /\ SubscriptionsIdle
    /\ service \in ServiceReports
    /\ script = NoRun

TunnelNext ==
    \/ \E privileged, relaunched \in BOOLEAN : Main(privileged, relaunched)
    \/ StopQuery
    \/ ScStop
    \/ WaitStop
    \/ \E rc \in {0, 1} : PowerShell(rc)
    \/ WaitForced
    \/ Requery
    \/ Taskkill
    \/ WaitKilled
    \/ StartService
    \/ WaitStart
    \/ StartQuery
    \/ ServiceMoves

TunnelSpec == TunnelInit /\ [][TunnelNext]_vars

----------------------------------------------------------------------------
(* Properties *)

Done(r) == req[r].pc = "done"

Mentions(errors, e) == \E i \in 1..Len(errors) : errors[i] = e

\* the stripped course code of the request of worker r
CodeOf(r) == StripToNone(req[r].form.course_session_code)

\* a rule on email, names, age, course code or consent is violated by the form
FieldRuleViolated(r) ==
    LET f == req[r].form
    IN  \/ ~Truthy(req[r].user_email)
        \/ StripToNone(f.first_name) = None
        \/ StripToNone(f.last_name) = None
        \/ AgeErrors(f) # <<>>
        \/ CourseByCode(CodeOf(r), seatCap, bootPrice) = NoCourse
        \/ ~ToBool(f.data_processing_ok, FALSE)

\* C1: in every reachable state, under any interleaving of concurrent submit
\* requests, the number of rows of a course with a seat cap is at most the cap.
\* Stated for caps of at least 1, where the code does check the count, so that
\* the violation is the race of two requests between count and insert.
C1_SeatCapNeverExceeded ==
    seatCap >= 1 => CountFor(rows, BOOTCAMP_CODE) <= seatCap

\* C2: under sequential submission, with N = seat cap rows already stored for
\* the course, the next otherwise-valid submission (no database failure) ends
\* with the SeatCapReached outcome and the course still has N rows.
C2_NextSubmissionGetsSeatCapReached ==
    \A r \in Workers :
        ( /\ Done(r)
          /\ CodeOf(r) = BOOTCAMP_CODE
          /\ ~FieldRuleViolated(r)
          /\ req[r].outcome # "generic_failure"
          /\ ~Mentions(req[r].errors, "availability_unverified")
          /\ CountFor(rows, BOOTCAMP_CODE) - req[r].inserted = seatCap )
        => /\ req[r].outcome = "seat_cap_reached"
           /\ CountFor(rows, BOOTCAMP_CODE) = seatCap

\* C3: a successful submit adds exactly one row and an unsuccessful one none;
\* every step leaves the existing rows as they are and adds at most one row,
\* the data of a request that is committing its insert.
C3_OneRowPerSuccessNoneChanged ==
    /\ [](\A r \in Workers :
            /\ req[r].inserted = IF \/ req[r].pc = "notify"
                                    \/ Done(r) /\ req[r].outcome = "success"
                                 THEN 1 ELSE 0)
    /\ [][ /\ Len(rows') >= Len(rows)
           /\ SubSeq(rows', 1, Len(rows)) = rows
           /\ rows' # rows =>
                \E r \in Workers : /\ req[r].pc = "tx_insert"
                                   /\ req'[r].pc = "notify"
                                   /\ rows' = Append(rows, req[r].data) ]_vars

C3_Witness ==
    \E r \in Workers :
        Done(r) /\ req[r].outcome = "success" /\ req[r].inserted = 1 /\ Len(rows) >= 2

\* C4: a submit that ends with validation errors has inserted no row, has not
\* opened the insert transaction, has attempted no email, and answers 400
\* with a non-empty error list.
C4_ValidationErrorsNoSideEffects ==
    \A r \in Workers :
        (Done(r) /\ req[r].outcome = "validation_errors")
        => /\ req[r].inserted = 0
           /\ ~req[r].tx_begun
           /\ req[r].mail = "none"
           /\ req[r].status = 400
           /\ req[r].errors # <<>>

C4_Witness ==
    \E r \in Workers :
        /\ Done(r) /\ req[r].outcome = "validation_errors"
        /\ Len(req[r].errors) >= 2 /\ rows # <<>>

\* C5: the email is attempted only by a request whose insert has committed
\* (never by a rejected or failed one), and a request whose email failed
\* still ends with the success outcome and its row in the table.
C5_NotifyOnlyAfterCommit ==
    \A r \in Workers :
        /\ (req[r].pc = "notify" \/ req[r].mail # "none")
           => /\ req[r].inserted = 1
              /\ \E i \in 1..Len(rows) : rows[i] = req[r].data
        /\ req[r].mail # "none"
           => Done(r) /\ req[r].outcome = "success" /\ req[r].status = 302

C5_Witness ==
    \E r \in Workers :
        /\ Done(r) /\ req[r].mail = "failed" /\ req[r].outcome = "success"
        /\ \E i \in 1..Len(rows) : rows[i] = req[r].data

\* C6: a request whose insert transaction failed (opened, neither committed
\* nor stopped by the seat cap) has left no row, has attempted no email and
\* ends with the generic failure outcome, without a validation error list.
C6_FailedInsertLeavesNothing ==
    \A r \in Workers :
        Done(r) =>
          /\ (req[r].tx_begun /\ req[r].outcome # "success" /\ ~req[r].tx_full)
             => /\ req[r].outcome = "generic_failure"
                /\ req[r].inserted = 0
                /\ req[r].mail = "none"
                /\ req[r].errors = <<>>
                /\ req[r].status = 302
          /\ req[r].outcome = "generic_failure" => req[r].tx_begun

C6_Witness ==
    \E r \in Workers :
        /\ Done(r) /\ req[r].outcome = "generic_failure" /\ req[r].db_reads = 2
        /\ req[r].inserted = 0 /\ rows # <<>>

\* C7: for a known course and any promo input, the answer of price_preview
\* and the price a successful submit of the same course and promo input
\* records agree on the price, on whether a promo applied and on is_free.
C7_PreviewAgreesWithSubmit ==
    \A r \in Workers :
        ( /\ Done(r) /\ req[r].outcome = "success"
          /\ preview # NoPreview
          /\ preview.code = req[r].form.promo_code
          /\ preview.course = req[r].form.course_session_code )
        => /\ \E i \in 1..Len(rows) : rows[i] = req[r].data
           /\ req[r].data.price_eur = preview.price_eur
           /\ req[r].data.promo_applied = preview.promo_applied
           /\ req[r].data.is_free = preview.is_free

C7_Witness ==
    \E r \in Workers :
        /\ Done(r) /\ req[r].outcome = "success"
        /\ preview.code = PaddedFreePromo
        /\ preview.code = req[r].form.promo_code
        /\ preview.course = PaddedBootcampCode
        /\ preview.course = req[r].form.course_session_code
        /\ preview.promo_applied /\ preview.price_eur < bootPrice

NotConsenting == {None, <<"n","o">>}

\* C9 as stated: a submit without consent ends with validation errors and
\* no row, whatever the other fields and the session.
C9_NoConsentAlwaysValidationError ==
    \A r \in Workers :
        (Done(r) /\ req[r].form.data_processing_ok \in NotConsenting)
        => req[r].outcome = "validation_errors" /\ req[r].inserted = 0

\* C9 as amended: a submit without consent never inserts a row; it ends with
\* the sign-in redirect when the course is not open for registration and
\* the session is not signed in, and otherwise with validation errors (400)
\* that name the missing consent.
C9_NoConsentNeverAccepted ==
    \A r \in Workers :
        (Done(r) /\ req[r].form.data_processing_ok \in NotConsenting)
        => /\ req[r].inserted = 0
           /\ ~req[r].tx_begun
           /\ req[r].outcome \in {"validation_errors", "signin_redirect"}
           /\ req[r].outcome = "signin_redirect"
              => ~CourseAllowsOpenRegistration(CodeOf(r), seatCap, bootPrice)
           /\ req[r].outcome = "validation_errors"
              => /\ Mentions(req[r].errors, "consent_required")
                 /\ req[r].status = 400

C9_Witness ==
    \E r \in Workers :
        /\ Done(r) /\ req[r].form.data_processing_ok = <<"n","o">>
        /\ req[r].errors = <<"consent_required">>
        /\ req[r].outcome = "validation_errors"

\* C10 as stated: a submit whose form violates a field rule makes no
\* database read and no database write.
C10_NoDatabaseAccessOnFieldError ==
    \A r \in Workers :
        (req[r].pc # "idle" /\ FieldRuleViolated(r))
        => req[r].db_reads = 0 /\ ~req[r].tx_begun /\ req[r].inserted = 0

\* C10 as amended: a submit whose form violates a field rule never opens the
\* insert transaction and writes nothing; its only database access is the
\* one seat-count read of the pre-check, made when the course is known and
\* has a seat cap the code enforces.
C10_NoDatabaseWriteOnFieldError ==
    \A r \in Workers :
        (req[r].pc # "idle" /\ FieldRuleViolated(r))
        => /\ ~req[r].tx_begun
           /\ req[r].inserted = 0
           /\ req[r].db_reads <= 1
           /\ req[r].db_reads = 1
              => /\ CodeOf(r) = BOOTCAMP_CODE
                 /\ seatCap >= 1
           /\ Done(r) => req[r].outcome \in {"validation_errors", "signin_redirect"}

C10_Witness ==
    \E r \in Workers :
        /\ Done(r) /\ FieldRuleViolated(r) /\ req[r].db_reads = 1
        /\ req[r].outcome = "validation_errors"

----------------------------------------------------------------------------
(* Validation errors *)

\* the rules of the field validation and the messages each one can append
Rules == {"email", "first_name", "last_name", "age", "course", "consent"}

RuleMessages(rule) ==
    CASE rule = "email" -> {"email_required"}
      [] rule = "first_name" -> {"first_name_required"}
      [] rule = "last_name" -> {"last_name_required"}
      [] rule = "age" -> {"age_not_whole_number", "age_out_of_range"}
      [] rule = "course" -> {"invalid_course"}
      [] rule = "consent" -> {"consent_required"}

\* the request of worker r violates the rule
RuleViolated(r, rule) ==
    LET f == req[r].form
        age_raw == StripToNone(f.age)
    IN  CASE rule = "email" -> ~Truthy(req[r].user_email)
          [] rule = "first_name" -> StripToNone(f.first_name) = None
          [] rule = "last_name" -> StripToNone(f.last_name) = None
          [] rule = "age" ->
                /\ age_raw # None
                /\ ~(/\ ParsesAsInt(age_raw)
                     /\ 10 <= DecimalValue(age_raw)
                     /\ DecimalValue(age_raw) <= 120)
          [] rule = "course" -> CourseByCode(CodeOf(r), seatCap, bootPrice) = NoCourse
          [] rule = "consent" -> ~ToBool(f.data_processing_ok, FALSE)

\* how many messages of the rule the error list holds
MessageCount(errors, rule) ==
    Cardinality({i \in 1..Len(errors) : errors[i] \in RuleMessages(rule)})

\* C11: the error list returned by submit holds one message for each violated
\* rule (email, first name, last name, age, course code, consent) and none
\* for a satisfied rule, whichever subset of the rules is violated.
C11_OneMessagePerViolatedRule ==
    \A r \in Workers :
        (Done(r) /\ req[r].outcome = "validation_errors") =>
            \A rule \in Rules :
                MessageCount(req[r].errors, rule)
                    = IF RuleViolated(r, rule) THEN 1 ELSE 0

\* all six rules violated at once, and six messages returned
C11_Witness ==
    \E r \in Workers :
        /\ Done(r) /\ req[r].outcome = "validation_errors"
        /\ \A rule \in Rules : RuleViolated(r, rule)
        /\ Len(req[r].errors) = 6

\* an '@' and, somewhere after it, a dot
WellFormedEmail(e) ==
    \E i \in 1..Len(e) : e[i] = "@" /\ \E j \in (i+1)..Len(e) : e[j] = "."

\* C12: submit accepts an email only if it is present and has an '@' and a dot
\* after it: a submission whose email is missing or lacks either ends with a
\* validation error and no row, so every stored row has a well-formed email.
C12_OnlyWellFormedEmailAccepted ==
    /\ \A i \in 1..Len(rows) : WellFormedEmail(rows[i].user_email)
    /\ \A r \in Workers :
          ( /\ Done(r) /\ req[r].outcome # "signin_redirect"
            /\ ~WellFormedEmail(req[r].user_email) )
          => /\ req[r].outcome = "validation_errors"
             /\ req[r].inserted = 0

----------------------------------------------------------------------------
(* Capacity *)

\* the request of worker r was refused for capacity, by either check
RefusedForCapacity(r) ==
    \/ Mentions(req[r].errors, "cohort_full")
    \/ req[r].outcome = "seat_cap_reached"

\* C13: under sequential submission an otherwise-valid submission for the
\* course with a configured seat cap (no database failure) passes the capacity
\* check exactly when the course's row count before it is strictly below the
\* cap, for every cap value; a submission for the course without a cap is
\* never refused for capacity.
C13_PassesExactlyWhenCountBelowCap ==
    \A r \in Workers :
        ( /\ Done(r)
          /\ req[r].outcome # "signin_redirect"
          /\ ~FieldRuleViolated(r)
          /\ req[r].outcome # "generic_failure"
          /\ ~Mentions(req[r].errors, "availability_unverified") )
        => /\ CodeOf(r) = BOOTCAMP_CODE =>
                ( ~RefusedForCapacity(r)
                  <=> CountFor(rows, BOOTCAMP_CODE) - req[r].inserted < seatCap )
           /\ CodeOf(r) = AAI_CODE => ~RefusedForCapacity(r)

----------------------------------------------------------------------------
(* Pricing *)

\* the caller of the resolver supplied a promo code
PromoSupplied == StripToNone(priceCall.promo_input) # None

\* the promo input is the configured code up to letter case and surrounding
\* blanks
MatchesCode(promo_input, configured) ==
    /\ promo_input # None
    /\ Lower(Strip(promo_input)) = Lower(configured)

\* C14: for a base price above the discount price and no promo code supplied,
\* the resolver applies the standard discount code exactly when the course has
\* an early-bird deadline and the time of the call is strictly before it; at
\* the deadline or later it does not.
C14_AutoAppliedExactlyBeforeDeadline ==
    ( /\ priceCall.called
      /\ ~PromoSupplied
      /\ PROMO_PRICE_EUR < priceCall.base )
    => ( priceCall.result.applied = PROMO_CODE
         <=> (priceCall.has_deadline /\ priceCall.now < EARLY_BIRD_DEADLINE) )

\* C15: when the caller supplies a promo code the result is that of the
\* supplied code alone: the applied promo, if any, is the supplied code, the
\* price is the base price otherwise, and the result is the same at every time
\* before, at and after the deadline, with or without a deadline.
C15_SuppliedCodeAloneDecides ==
    (priceCall.called /\ PromoSupplied) =>
        /\ priceCall.result.applied # None =>
                MatchesCode(priceCall.promo_input, priceCall.result.applied)
        /\ priceCall.result.applied = None =>
                priceCall.result.price = priceCall.base
        /\ \A t \in Times, d \in BOOLEAN :
                ResolvePrice(priceCall.promo_input, priceCall.base, t, d)
                    = priceCall.result

\* the free code supplied before the deadline by a course that has one: the
\* free code is what is applied
C15_Witness ==
    /\ priceCall.called
    /\ priceCall.has_deadline /\ priceCall.now < EARLY_BIRD_DEADLINE
    /\ MatchesCode(priceCall.promo_input, PROMO_CODE_FREE)
    /\ priceCall.result.applied = PROMO_CODE_FREE

\* C16: for every base price and every promo input equal to the discount code
\* up to letter case, the resolver returns the discount price with the code
\* applied, not free, if the discount price is strictly below the base price,
\* and does not apply the discount otherwise.
C16_DiscountOnlyBelowBase ==
    ( /\ priceCall.called
      /\ priceCall.promo_input # None
      /\ Lower(priceCall.promo_input) = Lower(PROMO_CODE) )
    => IF PROMO_PRICE_EUR < priceCall.base
       THEN priceCall.result = [price |-> PROMO_PRICE_EUR, applied |-> PROMO_CODE,
                                is_free |-> FALSE]
       ELSE priceCall.result = [price |-> priceCall.base, applied |-> None,
                                is_free |-> FALSE]

\* the discount code in mixed case, the base price one above the discount price
C16_Witness ==
    /\ priceCall.called
    /\ priceCall.promo_input = MixedCasePromo
    /\ priceCall.base = PROMO_PRICE_EUR + 1
    /\ priceCall.result.price = PROMO_PRICE_EUR
    /\ priceCall.result.applied = PROMO_CODE

\* C17: for every base price, a promo input matching the free code returns
\* the free price with is_free true and the free code applied if the free
\* price is at most the base price, and does not apply it otherwise.
C17_FreeCodeUpToBase ==
    (priceCall.called /\ MatchesCode(priceCall.promo_input, PROMO_CODE_FREE))
    => IF PROMO_PRICE_FREE_EUR <= priceCall.base
       THEN priceCall.result = [price |-> PROMO_PRICE_FREE_EUR,
                                applied |-> PROMO_CODE_FREE, is_free |-> TRUE]
       ELSE priceCall.result = [price |-> priceCall.base, applied |-> None,
                                is_free |-> FALSE]

\* the free code on a base price equal to the free price
C17_Witness ==
    /\ priceCall.called
    /\ MatchesCode(priceCall.promo_input, PROMO_CODE_FREE)
    /\ priceCall.base = PROMO_PRICE_FREE_EUR
    /\ priceCall.result.is_free
    /\ priceCall.result.applied = PROMO_CODE_FREE

\* the promo input matches neither configured promo code
MatchesNoCode(promo_input) ==
    /\ ~MatchesCode(promo_input, PROMO_CODE)
    /\ ~MatchesCode(promo_input, PROMO_CODE_FREE)

\* the price of the course of the code, BASE_PRICE_EUR without a course
BasePriceOf(code) ==
    LET course == CourseByCode(code, seatCap, bootPrice)
    IN  IF course # NoCourse THEN course.price_eur ELSE BASE_PRICE_EUR

\* C18: for every course and every promo input that matches no configured
\* promo code, price_preview answers the course's base price with no promo
\* applied and not free, submit computes the same, and the submit is not
\* rejected because of the code: its error list holds nothing but what the
\* seat pre-check put there, and a stored row carries the base price.
C18_UnknownPromoFallsBackSilently ==
    /\ (preview # NoPreview /\ MatchesNoCode(preview.code)) =>
            /\ preview.price_eur = BasePriceOf(StripToNone(preview.course))
            /\ preview.base_price_eur = preview.price_eur
            /\ ~preview.promo_applied
            /\ ~preview.is_free
    /\ \A r \in Workers :
          ( /\ req[r].pc \in {"tx_count", "tx_insert", "notify", "done"}
            /\ req[r].outcome # "signin_redirect"
            /\ MatchesNoCode(req[r].form.promo_code) )
          => /\ req[r].price = [price |-> BasePriceOf(CodeOf(r)),
                                applied |-> None, is_free |-> FALSE]
             /\ \A i \in 1..Len(req[r].errors) :
                    req[r].errors[i] \in {"cohort_full", "availability_unverified"}
             /\ req[r].inserted = 1 =>
                    /\ req[r].data.price_eur = BasePriceOf(CodeOf(r))
                    /\ ~req[r].data.promo_applied
                    /\ ~req[r].data.is_free

\* an unknown code previewed, and a submit carrying it accepted at base price
C18_Witness ==
    /\ preview.code = UnknownPromo
    /\ preview.price_eur = preview.base_price_eur
    /\ \E r \in Workers :
          /\ Done(r) /\ req[r].outcome = "success"
          /\ req[r].form.promo_code = UnknownPromo
          /\ req[r].data.price_eur = BasePriceOf(CodeOf(r))

----------------------------------------------------------------------------
(* Billing *)

\* worker r has stored the last row of the table
StoredLastRow(r) ==
    /\ req[r].inserted = 1
    /\ rows # <<>>
    /\ rows[Len(rows)] = req[r].data

\* C19: when billing_same_as_personal is true (or absent, which counts as
\* true), each stored invoice field (name, email, phone, address lines 1 and
\* 2, city, state, postal code, country) equals the corresponding stored
\* personal field if the submitter left it blank, and the submitted invoice
\* value, trimmed, if the submitter filled it in.  The personal field of the
\* invoice name is the first and the last name joined by a blank.
C19_InvoiceFollowsPersonalWhenBlank ==
    \A r \in Workers :
        ( /\ StoredLastRow(r)
          /\ ToBool(req[r].form.billing_same_as_personal, TRUE) )
        => LET row == rows[Len(rows)]
               f == req[r].form
           IN  /\ row.invoice_name =
                     IF StripToNone(f.invoice_name) = None
                     THEN row.first_name \o <<" ">> \o row.last_name
                     ELSE Strip(f.invoice_name)
               /\ row.invoice_email =
                     IF StripToNone(f.invoice_email) = None THEN row.user_email
                     ELSE Strip(f.invoice_email)
               /\ row.invoice_phone =
                     IF StripToNone(f.invoice_phone) = None THEN row.phone
                     ELSE Strip(f.invoice_phone)
               /\ row.invoice_addr_line1 =
                     IF StripToNone(f.invoice_addr_line1) = None
                     THEN row.address_line1 ELSE Strip(f.invoice_addr_line1)
               /\ row.invoice_addr_line2 =
                     IF StripToNone(f.invoice_addr_line2) = None
                     THEN row.address_line2 ELSE Strip(f.invoice_addr_line2)
               /\ row.invoice_city =
                     IF StripToNone(f.invoice_city) = None THEN row.city
                     ELSE Strip(f.invoice_city)
               /\ row.invoice_state =
                     IF StripToNone(f.invoice_state) = None THEN row.state
                     ELSE Strip(f.invoice_state)
               /\ row.invoice_postal_code =
                     IF StripToNone(f.invoice_postal_code) = None
                     THEN row.postal_code ELSE Strip(f.invoice_postal_code)
               /\ row.invoice_country =
                     IF StripToNone(f.invoice_country) = None THEN row.country
                     ELSE Strip(f.invoice_country)

\* a stored row whose form had the flag on, the invoice city typed in and
\* the other invoice fields blank: the city is kept, the rest is personal
C19_Witness ==
    \E r \in Workers :
        /\ StoredLastRow(r)
        /\ req[r].form.billing_same_as_personal = On
        /\ req[r].form.invoice_city = InvoiceSample.invoice_city
        /\ req[r].form.invoice_phone = <<" ">>
        /\ rows[Len(rows)].invoice_city = <<"i","4">>
        /\ rows[Len(rows)].invoice_phone = PersonalSample.phone
        /\ rows[Len(rows)].invoice_name = SomeName \o <<" ">> \o SomeLastName
        /\ rows[Len(rows)].invoice_email = ValidEmail

----------------------------------------------------------------------------
(* Notification *)

\* C20: every submit whose registration has committed eventually returns its
\* response, even if the mail transport never answers.
C20_CommittedSubmitReturns ==
    \A r \in Workers : (req[r].pc = "notify") ~> Done(r)

----------------------------------------------------------------------------
(* Sessions *)

\* the address ends in @gmail.com
IsGmail(e) ==
    /\ Len(e) > Len(GmailDomain)
    /\ SubSeq(e, Len(e) - Len(GmailDomain) + 1, Len(e)) = GmailDomain

\* C22: the session carries a user_email only after a sign-in with the Gmail
\* address of a stored user (and that user's password); a sign-in with a
\* non-Gmail address leaves the session without user_email.
C22_SessionEmailIsStoredGmailUser ==
    session.user_email # None =>
        /\ IsGmail(session.user_email)
        /\ session.user_email \in DOMAIN Users

\* C23: while the user of the session has must_change_password set (nothing
\* in the program clears it), every request to the registration page is
\* answered with the redirect to the password-change step.
C23_PageRedirectsUntilPasswordChanged ==
    ( /\ lastResp.view = "page"
      /\ lastResp.user_email \in DOMAIN Users
      /\ Users[lastResp.user_email].must_change_password )
    => /\ lastResp.status = 302
       /\ lastResp.location = "register.password_change"

----------------------------------------------------------------------------
(* The race between count and insert *)

\* C24: the count and the insert are not isolated from other requests.  The
\* row count of the course goes above a cap of 1 or more only by a step of
\* this kind: a request that has passed the count check of its transaction
\* commits its one row although the count has meanwhile reached the cap.
C24_CapCrossedByStaleInsert ==
    [][ ( /\ seatCap >= 1
          /\ CountFor(rows, BOOTCAMP_CODE) <= seatCap
          /\ CountFor(rows', BOOTCAMP_CODE) > seatCap )
        => /\ CountFor(rows, BOOTCAMP_CODE) = seatCap
           /\ Len(rows') = Len(rows) + 1
           /\ \E r \in Workers :
                 /\ req[r].pc = "tx_insert"
                 /\ req[r].tx_begun
                 /\ req'[r].pc = "notify"
                 /\ rows' = Append(rows, req[r].data) ]_vars

\* two requests in flight, both past their count check, both with their row
\* stored, and the course above its cap
C24_Witness ==
    /\ seatCap >= 1
    /\ CountFor(rows, BOOTCAMP_CODE) > seatCap
    /\ \E r1, r2 \in Workers :
          /\ r1 # r2
          /\ req[r1].inserted = 1 /\ req[r1].tx_begun
          /\ req[r2].inserted = 1 /\ req[r2].tx_begun
          /\ req[r1].data.course_session_code = BOOTCAMP_CODE
          /\ req[r2].data.course_session_code = BOOTCAMP_CODE

\* C25: with at most MaxInFlight submit requests in flight at the same time
\* the row count of the course with seat cap N never exceeds
\* N + MaxInFlight - 1, for every cap N.
C25_OverAllocationBounded ==
    CountFor(rows, BOOTCAMP_CODE) <= seatCap + MaxInFlight - 1

\* a course of COURSES registered under code that requires the access code
RequiresAccessCode(code) ==
    LET course == CourseByCode(code, seatCap, bootPrice)
    IN  course # NoCourse /\ course.requires_access_code

\* the step is a submit request r arriving with form data
SubmitArrives(r) == req[r].pc = "idle" /\ req'[r].pc # "idle"

\* the session becomes signed in only in a signin step carrying the course
\* access code, and no other step than signin and logout changes the session
SignedInOnlyByAccessCode ==
    /\ (session'.signed_in /\ ~session.signed_in)
          => /\ lastResp'.view = "signin"
             /\ Strip(lastResp'.access_code) = COURSE_ACCESS_CODE
    /\ (session' # session) => lastResp'.view \in {"signin", "logout"}
    /\ (lastResp'.view = "logout") => ~session'.signed_in

\* a submit arriving while the session is not signed in, for a course that
\* requires the access code, is answered at once by the redirect and leaves
\* the table untouched
UnsignedSubmitRedirects ==
    \A r \in Workers :
        (SubmitArrives(r) /\ ~session.signed_in /\ RequiresAccessCode(CodeOf(r))')
          => /\ req'[r].pc = "done"
             /\ req'[r].outcome = "signin_redirect"
             /\ req'[r].status = 302
             /\ req'[r].db_reads = 0
             /\ ~req'[r].tx_begun
             /\ req'[r].inserted = 0
             /\ rows' = rows

C27_PriceNeverAboveBase ==
    priceCall.called
    => /\ priceCall.result.price <= priceCall.base
       /\ (priceCall.result.applied = None)
            => /\ priceCall.result.price = priceCall.base
               /\ ~priceCall.result.is_free

\* both cases: a code refused because its price is not below the base, and a
\* code applied to a price strictly below the base
C27_Witness ==
    /\ priceCall.called
    /\ \/ /\ MatchesCode(priceCall.promo_input, PROMO_CODE)
          /\ priceCall.base < PROMO_PRICE_EUR
          /\ priceCall.result.applied = None
          /\ priceCall.result.price = priceCall.base
       \/ /\ MatchesCode(priceCall.promo_input, PROMO_CODE_FREE)
          /\ priceCall.base < PROMO_PRICE_FREE_EUR
          /\ priceCall.result.applied = None
          /\ ~priceCall.result.is_free

\* the rows stored for the lower-cased email
SubscriptionsOf(table, email) ==
    {i \in 1..Len(table) : Lower(table[i].email) = email}

\* the email of the request, stripped and lower-cased, written out on its own
LowerCased(raw) == IF raw = None THEN <<>> ELSE Lower(Strip(raw))

\* the step commits the write of a request
WriteCommits == subResp.pc # "written" /\ subResp'.pc = "written"

\* the committed write of a request inserts one row if the table has none for
\* its lower-cased email, and otherwise updates the one row there is, in
\* place, whatever the letter case of the request
FirstInsertsLaterUpdate ==
    WriteCommits
    => LET email == LowerCased(subResp'.email_raw)
           before == SubscriptionsOf(subscriptions, email)
       IN  IF before = {}
           THEN /\ Len(subscriptions') = Len(subscriptions) + 1
                /\ subResp'.created
                /\ SubscriptionsOf(subscriptions', email) = {Len(subscriptions')}
                /\ \A i \in 1..Len(subscriptions) :
                      subscriptions'[i] = subscriptions[i]
           ELSE /\ Len(subscriptions') = Len(subscriptions)
                /\ ~subResp'.created
                /\ \E i \in before :
                      /\ subResp'.id = subscriptions[i].id
                      /\ subscriptions'[i].status = subResp'.status
                      /\ \A j \in 1..Len(subscriptions) :
                            j # i => subscriptions'[j] = subscriptions[j]

\* the table has at most one row for each lower-cased email
OneRowPerEmail ==
    \A i, j \in 1..Len(subscriptions) :
        Lower(subscriptions[i].email) = Lower(subscriptions[j].email) => i = j

\* C28: after any sequence of create_subscription requests handled one after
\* the other from an empty table, the table holds at most one row per
\* lower-cased email: the first request whose write commits inserts the row
\* and every later one for the same email, in any letter case, updates it.
C28_OneSubscriptionPerEmail ==
    [](OneRowPerEmail) /\ [][FirstInsertsLaterUpdate]_vars

\* a later request in another letter case has updated the row of the first
C28_Witness ==
    /\ subResp.pc = "written"
    /\ subResp.email_raw \in {UpperValidEmail, PaddedMixedEmail}
    /\ ~subResp.created
    /\ subResp.id = 1
    /\ Len(subscriptions) = 2
    /\ subscriptions[1].email = ValidEmail
    /\ subscriptions[1].status = Unsubscribed

\* the welcome email is attempted only for a status other than unsubscribed,
\* and then only for a new row or for a stored status other than confirmed
\* that becomes confirmed
WelcomeOnlyWhenDue ==
    (subResp.pc = "done" /\ subResp.attempted)
    => /\ subResp.status # Unsubscribed
       /\ \/ subResp.created
          \/ subResp.existing_status # Confirmed /\ subResp.status = Confirmed

\* a request for an email whose stored status is confirmed attempts nothing
RepeatedConfirmedIsSilent ==
    (subResp.pc = "done" /\ subResp.existing_status = Confirmed)
    => ~subResp.attempted

\* the welcome step leaves the table as the committed write left it
WelcomeKeepsWrite ==
    (subResp.pc = "written" /\ subResp'.pc = "done")
    => /\ subscriptions' = subscriptions
       /\ \E i \in 1..Len(subscriptions') :
             /\ subscriptions'[i].id = subResp'.id
             /\ subscriptions'[i].email = subResp'.email
             /\ subscriptions'[i].status = subResp'.status

\* C29: create_subscription attempts the welcome email only when the new
\* status is not unsubscribed and either the row is new or the stored status
\* was not confirmed and the new one is; a repeated request for an email
\* stored as confirmed attempts none; a failed welcome email leaves the
\* committed row in the table.
C29_WelcomeOnlyOnNewOrConfirming ==
    /\ [](WelcomeOnlyWhenDue /\ RepeatedConfirmedIsSilent)
    /\ [][WelcomeKeepsWrite]_vars

\* a pending row was confirmed by a later request, the welcome email was
\* attempted and failed, and the confirmed row is in the table
C29_Witness ==
    /\ subResp.pc = "done"
    /\ ~subResp.created
    /\ subResp.existing_status = Pending
    /\ subResp.status = Confirmed
    /\ subResp.attempted
    /\ ~subResp.email_sent
    /\ subResp.error = "email_send_failed"
    /\ \E i \in 1..Len(subscriptions) :
          subscriptions[i].id = subResp.id /\ subscriptions[i].status = Confirmed

\* the order of escalation of stop_service
StopCommands == <<"sc stop", "Stop-Service", "taskkill">>

IsStopCommand(c) == c # "sc start"

\* the stop commands the run has issued, in order
StopsIssued == SelectSeq(script.cmds, IsStopCommand)

Issued(c) == \E i \in 1..Len(script.cmds) : script.cmds[i] = c

IsPrefix(a, b) == Len(a) <= Len(b) /\ a = SubSeq(b, 1, Len(a))

\* sc start is the last command and follows a stop_service that returned True;
\* a stop_service that returned False ends the run with exit code 2
StartOnlyAfterStopped ==
    /\ Issued("sc start")
         => /\ script.stopped = "yes"
            /\ script.cmds = Append(StopsIssued, "sc start")
    /\ script.stopped = "no"
         => ~Issued("sc start") /\ script.pc = "exit" /\ script.exit = 2
    /\ script.exit = 3 => Issued("sc start")

\* the stop commands come in the order of StopCommands, each later one after
\* the wait for STOPPED of the one before timed out, or, for taskkill after a
\* failed Stop-Service, after a query that did not report STOPPED
EscalatesInOrder ==
    /\ IsPrefix(StopsIssued, StopCommands)
    /\ Issued("Stop-Service")
         => Len(script.waited) >= 1 /\ script.waited[1] = "no"
    /\ Issued("taskkill")
         => /\ script.stx \notin {"none", "STOPPED"}
            /\ script.pidx # 0
            /\ script.ps_rc = 0
                 => Len(script.waited) >= 2 /\ script.waited[2] = "no"

\* a service first reported in another state than RUNNING gets no stop command
NoStopUnlessRunning == script.st0 # "RUNNING" => StopsIssued = <<>>

\* C30: start_service is invoked only after stop_service has returned success,
\* and otherwise main exits with code 2 without starting; stop_service issues
\* sc stop, then Stop-Service -Force, then taskkill, each later one only if the
\* service was not seen STOPPED after the one before, and issues no stop
\* command when the service is not RUNNING at first.
C30_StartOnlyAfterOrderedStop ==
    StartOnlyAfterStopped /\ EscalatesInOrder /\ NoStopUnlessRunning

\* the full escalation: the three stop commands, then the start, then exit 0
C30_Witness ==
    /\ script.pc = "exit"
    /\ script.exit = 0
    /\ script.st0 = "RUNNING"
    /\ script.cmds = Append(StopCommands, "sc start")
    /\ script.waited = <<"no", "no", "yes", "yes">>

====
